---- MODULE Spec2Model ----
(***************************************************************************)
(* RetailerBuyingPage (frontend/src/pages/RetailerbuyingPage.js): the      *)
(* React page state, its event handlers and its asynchronous requests.     *)
(***************************************************************************)
EXTENDS Integers, Sequences, FiniteSets, Bags, TLC

(***************************************************************************)
(* JavaScript numbers.  The price preview is computed in IEEE-754 binary64 *)
(* arithmetic, so naturals of arbitrary size are kept as little-endian     *)
(* sequences of limbs and every arithmetic operation rounds its exact      *)
(* result to the nearest 53-bit significand, ties to even.                 *)
(***************************************************************************)
\* limbs of 15 bits
Base == 2^15

Limb0(a) == IF a = <<>> THEN 0 ELSE Head(a)

Rest(a) == IF a = <<>> THEN <<>> ELSE Tail(a)

RECURSIVE BigFromNat(_)
BigFromNat(n) == IF n = 0 THEN <<>> ELSE <<n % Base>> \o BigFromNat(n \div Base)

RECURSIVE BigToNat(_)
BigToNat(a) == IF a = <<>> THEN 0 ELSE Head(a) + Base * BigToNat(Tail(a))

RECURSIVE BigNorm(_)
BigNorm(a) ==
  IF a = <<>> THEN <<>>
  ELSE IF a[Len(a)] = 0 THEN BigNorm(SubSeq(a, 1, Len(a) - 1)) ELSE a

RECURSIVE BigAddC(_, _, _)
BigAddC(a, b, c) ==
  IF a = <<>> /\ b = <<>> THEN (IF c = 0 THEN <<>> ELSE <<c>>)
  ELSE LET x == Limb0(a) + Limb0(b) + c
       IN  <<x % Base>> \o BigAddC(Rest(a), Rest(b), x \div Base)

BigAdd(a, b) == BigAddC(a, b, 0)

\* a - b for a >= b
RECURSIVE BigSubB(_, _, _)
BigSubB(a, b, c) ==
  IF a = <<>> THEN <<>>
  ELSE LET x == Head(a) - Limb0(b) - c
       IN  IF x < 0 THEN <<x + Base>> \o BigSubB(Tail(a), Rest(b), 1)
           ELSE <<x>> \o BigSubB(Tail(a), Rest(b), 0)

BigSub(a, b) == BigNorm(BigSubB(a, b, 0))

\* -1, 0, 1 as a < b, a = b, a > b (both without leading zero limbs)
RECURSIVE BigCmpTop(_, _, _)
BigCmpTop(a, b, i) ==
  IF i = 0 THEN 0
  ELSE IF a[i] < b[i] THEN -1
  ELSE IF a[i] > b[i] THEN 1
  ELSE BigCmpTop(a, b, i - 1)

BigCmp(a, b) ==
  IF Len(a) < Len(b) THEN -1
  ELSE IF Len(a) > Len(b) THEN 1
  ELSE BigCmpTop(a, b, Len(a))

RECURSIVE BigMulSmall(_, _, _)
BigMulSmall(a, k, c) ==
  IF a = <<>> THEN (IF c = 0 THEN <<>> ELSE <<c>>)
  ELSE LET x == Head(a) * k + c
       IN  <<x % Base>> \o BigMulSmall(Tail(a), k, x \div Base)

BigShiftLimb(a) == IF a = <<>> THEN <<>> ELSE <<0>> \o a

RECURSIVE BigMul(_, _)
BigMul(a, b) ==
  IF b = <<>> \/ a = <<>> THEN <<>>
  ELSE BigAdd(BigMulSmall(a, Head(b), 0), BigShiftLimb(BigMul(a, Tail(b))))

\* a * 2^k
BigShl(a, k) ==
  IF a = <<>> THEN <<>>
  ELSE [i \in 1..(k \div 15) |-> 0] \o BigMulSmall(a, 2^(k % 15), 0)

\* floor(a / d) for 0 < d <= Base, the limbs i..1 of a below the remainder rem
RECURSIVE BigDivSmallTop(_, _, _, _)
BigDivSmallTop(a, d, i, rem) ==
  IF i = 0 THEN <<>>
  ELSE LET cur == rem * Base + a[i]
       IN  BigDivSmallTop(a, d, i - 1, cur % d) \o <<cur \div d>>

\* floor(a / 2^k)
BigShr(a, k) ==
  IF Len(a) <= k \div 15 THEN <<>>
  ELSE LET hi == SubSeq(a, (k \div 15) + 1, Len(a))
       IN  BigNorm(BigDivSmallTop(hi, 2^(k % 15), Len(hi), 0))

\* The number of bits of a limb.
BitLenSmall(n) == Cardinality({b \in 0..14 : 2^b <= n})

BitLen(a) == IF a = <<>> THEN 0 ELSE 15 * (Len(a) - 1) + BitLenSmall(a[Len(a)])

BigOne == <<1>>

\* A binary64 value is sig * 2^exp (sig a natural below 2^53, or exactly 2^53).
DZero == [sig |-> <<>>, exp |-> 0]

\* v, once e has a value: an operator's argument is evaluated where it is first
\* used, and After(e, v) uses e before anything in v does.
After(e, v) == IF e = e THEN v ELSE v

\* Long division: one more bit of N/T after the bits s.q, s.r the running
\* remainder.
QuotStep(s, T) ==
  LET r2 == BigAdd(s.r, s.r)
      q2 == BigAdd(s.q, s.q)
      ge == BigCmp(r2, T) >= 0
  IN  [r |-> IF ge THEN BigSub(r2, T) ELSE r2,
       q |-> IF ge THEN BigAdd(q2, BigOne) ELSE q2]

RECURSIVE QuotBits(_, _, _)
\* k more bits after the bits of h.
QuotRest(h, T, k) == After(h, QuotBits(h, T, k))

\* k more bits: the first half of them, then the rest.
QuotBits(s, T, k) ==
  IF k = 0 THEN s
  ELSE IF k = 1 THEN QuotStep(s, T)
  ELSE QuotRest(QuotBits(s, T, k \div 2), T, k - k \div 2)

\* N and T with T <= N < 2T, and the binary exponent e they were scaled by.
Normal(N1, T1, d) ==
  IF BigCmp(N1, T1) < 0 THEN [N |-> BigAdd(N1, N1), T |-> T1, e |-> d - 1]
  ELSE [N |-> N1, T |-> T1, e |-> d]

ScaleBy(N, D, d) ==
  IF d < 0 THEN Normal(BigShl(N, -d), D, d)
  ELSE IF d > 0 THEN Normal(N, BigShl(D, d), d)
  ELSE Normal(N, D, d)

\* Scale by powers of two until T <= N < 2T; e is the binary exponent of N/D.
Scale(N, D) == ScaleBy(N, D, BitLen(N) - BitLen(D))

\* The 53 bits d.q of the quotient rounded by the remainder d.r: to nearest,
\* ties to even.
RoundQuot(d, T, e) ==
  LET tw  == BigCmp(BigAdd(d.r, d.r), T)
      odd == Limb0(d.q) % 2 = 1
      up  == tw > 0 \/ (tw = 0 /\ odd)
  IN  After(d, [sig |-> IF up THEN BigAdd(d.q, BigOne) ELSE d.q, exp |-> e])

\* The leading bit of the quotient is 1; 52 more bits follow.
RoundScaled(s, e0) ==
  After(s, RoundQuot(QuotRest([q |-> BigOne, r |-> BigSub(s.N, s.T)], s.T, 52),
                     s.T, s.e - 52 + e0))

\* The binary64 nearest to N/D (round to nearest, ties to even), times 2^e0.
RoundRatio(N, D, e0) ==
  After(<<N, D>>, IF N = <<>> THEN DZero ELSE RoundScaled(Scale(N, D), e0))

DFromNat(n) == RoundRatio(BigFromNat(n), BigOne, 0)

DDiv(x, y) == After(<<x, y>>, RoundRatio(x.sig, y.sig, x.exp - y.exp))

DMul(x, y) ==
  After(<<x, y>>, RoundRatio(BigMul(x.sig, y.sig), BigOne, x.exp + y.exp))

MinExp(x, y) ==
  IF x.sig = <<>> THEN y.exp
  ELSE IF y.sig = <<>> THEN x.exp
  ELSE IF x.exp < y.exp THEN x.exp ELSE y.exp

Aligned(x, e) == IF x.sig = <<>> THEN <<>> ELSE BigShl(x.sig, x.exp - e)

DAdd(x, y) ==
  LET e == MinExp(x, y)
  IN  After(<<x, y>>, RoundRatio(BigAdd(Aligned(x, e), Aligned(y, e)), BigOne, e))

\* x - y for x >= y >= 0
DSub(x, y) ==
  LET e == MinExp(x, y)
  IN  After(<<x, y>>, RoundRatio(BigSub(Aligned(x, e), Aligned(y, e)), BigOne, e))

\* Number.prototype.toFixed(2) of x >= 0: the integer n with n/100 nearest to
\* the exact value of x, the larger n on a tie, i.e. floor(x * 100 + 1/2).
ToFixedHundredths(x) ==
  IF x.sig = <<>> THEN 0
  ELSE IF x.exp >= 0 THEN BigToNat(BigShl(BigMulSmall(x.sig, 100, 0), x.exp))
  ELSE BigToNat(BigShr(BigAdd(BigMulSmall(x.sig, 200, 0), BigShl(BigOne, -x.exp)),
                       1 - x.exp))

DigitChar(d) == <<"0", "1", "2", "3", "4", "5", "6", "7", "8", "9">>[d + 1]

RECURSIVE NatStr(_)
NatStr(n) ==
  IF n < 10 THEN <<DigitChar(n)>>
  ELSE NatStr(n \div 10) \o <<DigitChar(n % 10)>>

\* The decimal text with two fraction digits of n hundredths.
FixedText(n) ==
  NatStr(n \div 100) \o <<".">> \o <<DigitChar((n % 100) \div 10), DigitChar(n % 10)>>

toFixed2(x) == FixedText(ToFixedHundredths(x))

\* A price arrives as the JSON number literal cents/100 and is parsed to the
\* nearest binary64.
PriceNumber(cents) == RoundRatio(BigFromNat(cents), BigFromNat(100), 0)

\* 1 + markup / 100 for an integer-valued markup above -100
MarkupFactor(m) ==
  IF m >= 0 THEN DAdd(DFromNat(1), DDiv(DFromNat(m), DFromNat(100)))
  ELSE DSub(DFromNat(1), DDiv(DFromNat(-m), DFromNat(100)))

\* (selected.price * (1 + markup / 100)).toFixed(2)
RetailPriceText(cents, m) == toFixed2(DMul(PriceNumber(cents), MarkupFactor(m)))


(***************************************************************************)
(* Texts are sequences of one-character strings, so that                   *)
(* String.prototype.includes and concatenation are computed on characters. *)
(***************************************************************************)
\* s.includes(sub)
Includes(s, sub) ==
  \E i \in 1..(Len(s) - Len(sub) + 1) : SubSeq(s, i, i + Len(sub) - 1) = sub

RECURSIVE ParseDigits(_, _)
ParseDigits(s, acc) ==
  IF s = <<>> THEN acc
  ELSE ParseDigits(Tail(s), 10 * acc + (CHOOSE d \in 0..9 : DigitChar(d) = Head(s)))

\* Number(e.target.value) for the value of a type="number" input: the empty
\* value (an empty or rejected entry) converts to 0.
NumberOf(s) ==
  IF s = <<>> THEN 0
  ELSE IF Head(s) = "-" THEN -ParseDigits(Tail(s), 0)
  ELSE ParseDigits(s, 0)

\* selected = null
NULL == [id |-> "null", seller_id |-> "null", price |-> 0, stock |-> 0]

\* useAuth().user.id
UserId == "u1"

\* useState(1), useState(20)
InitialQty == 1

InitialMarkup == 20

\* The catalog the backend serves; price is the JSON number in hundredths.
OwnProduct == [id |-> "p0", seller_id |-> "u1", price |-> 1250, stock |-> 2]

ProductA == [id |-> "p1", seller_id |-> "w1", price |-> 10000, stock |-> 2]

ProductB == [id |-> "p2", seller_id |-> "w2", price |-> 450, stock |-> 1]

Catalog == <<OwnProduct, ProductA, ProductB>>

RECURSIVE Pick(_, _, _)
Pick(s, keep, i) ==
  IF i > Len(s) THEN <<>>
  ELSE (IF i \in keep THEN <<s[i]>> ELSE <<>>) \o Pick(s, keep, i + 1)

\* The arrays GET /api/products?available_only=true may answer with.
FetchedArrays == {Pick(Catalog, keep, 1) : keep \in SUBSET (1..Len(Catalog))}

\* What the user may leave in the quantity and markup inputs.
TypedQty == {<<>>, <<"1">>, <<"2">>}

TypedMarkup == {<<"1", "0", "1">>}

\* The markups typed when the price preview is examined.
PreviewMarkup ==
  {<<"0">>, <<"5">>, <<"1", "0">>, <<"1", "5">>, <<"2", "0">>,
   <<"2", "5">>, <<"5", "0">>, <<"7", "5">>, <<"1", "0", "0">>}

\* Responses of POST /api/purchase/from-wholesaler: status and body text.
BodyMessage == <<"{", "\"", "m", "e", "s", "s", "a", "g", "e", "\"", ":", "\"", "d",
    "o", "n", "e", "\"", "}">>

BodyDetail == <<"{", "\"", "d", "e", "t", "a", "i", "l", "\"", ":", "\"", "N", "e",
    "t", "w", "o", "r", "k", " ", "E", "r", "r", "o", "r", "\"", "}">>

BodyNull == <<"n", "u", "l", "l">>

BodyEmpty == <<>>

Bodies == {BodyMessage, BodyDetail, BodyNull, BodyEmpty}

Statuses == {200, 405, 500}

\* The message of the TypeError fetch rejects with when no response arrives.
FetchErrors == {<<"F", "a", "i", "l", "e", "d", " ", "t", "o", " ", "f", "e", "t",
    "c", "h">>}

\* JSON.parse on the bodies above: the kind of value parsed ("SyntaxError" when
\* it throws) with its message and detail properties, <<>> when undefined.
JSONParse(text) ==
  CASE text = BodyMessage ->
         [kind |-> "object", message |-> <<"d", "o", "n", "e">>, detail |-> <<>>]
    [] text = BodyDetail ->
         [kind |-> "object", message |-> <<>>, detail |-> <<"N", "e", "t", "w", "o",
             "r", "k", " ", "E", "r", "r", "o", "r">>]
    [] text = BodyNull -> [kind |-> "null", message |-> <<>>, detail |-> <<>>]
    [] OTHER -> [kind |-> "SyntaxError", message |-> <<>>, detail |-> <<>>]

SyntaxErrorMessage == <<"U", "n", "e", "x", "p", "e", "c", "t", "e", "d", " ", "e",
    "n", "d", " ", "o", "f", " ", "J", "S", "O", "N", " ", "i", "n", "p", "u", "t">>

NullMessageError == <<"C", "a", "n", "n", "o", "t", " ", "r", "e", "a", "d", " ",
    "p", "r", "o", "p", "e", "r", "t", "i", "e", "s", " ", "o", "f", " ", "n", "u",
    "l", "l", " ", "(", "r", "e", "a", "d", "i", "n", "g", " ", "'", "m", "e", "s",
    "s", "a", "g", "e", "'", ")">>

Msg405 == <<"S", "e", "r", "v", "e", "r", " ", "r", "e", "j", "e", "c", "t", "e",
    "d", " ", "P", "O", "S", "T", " ", "m", "e", "t", "h", "o", "d", " ", "-", " ",
    "c", "h", "e", "c", "k", " ", "C", "O", "R", "S", " ", "c", "o", "n", "f", "i",
    "g", "u", "r", "a", "t", "i", "o", "n">>

MsgCORS == <<"C", "O", "R", "S", " ", "b", "l", "o", "c", "k", "e", "d", " ", "t",
    "h", "e", " ", "r", "e", "q", "u", "e", "s", "t", " ", "-", " ", "c", "h", "e",
    "c", "k", " ", "s", "e", "r", "v", "e", "r", " ", "C", "O", "R", "S", " ", "s",
    "e", "t", "t", "i", "n", "g", "s">>

MsgNetwork == <<"N", "e", "t", "w", "o", "r", "k", " ", "e", "r", "r", "o", "r", " ",
    "-", " ", "c", "h", "e", "c", "k", " ", "i", "f", " ", "s", "e", "r", "v", "e",
    "r", " ", "i", "s", " ", "r", "u", "n", "n", "i", "n", "g">>

MsgPurchaseFailed == <<"P", "u", "r", "c", "h", "a", "s", "e", " ", "f", "a", "i",
    "l", "e", "d">>

MsgPurchaseOk == <<"P", "u", "r", "c", "h", "a", "s", "e", " ", "s", "u", "c", "c",
    "e", "s", "s", "f", "u", "l", "!">>

MsgSelect == <<"S", "e", "l", "e", "c", "t", " ", "a", " ", "p", "r", "o", "d", "u",
    "c", "t">>

MsgLoadFailed == <<"F", "a", "i", "l", "e", "d", " ", "t", "o", " ", "l", "o", "a",
    "d", " ", "w", "h", "o", "l", "e", "s", "a", "l", "e", "r", " ", "p", "r", "o",
    "d", "u", "c", "t", "s">>

NoToast == [level |-> "none", text |-> <<>>]

\* resp.ok
Ok(status) == status >= 200 /\ status <= 299

\* The message of the Error thrown for a response that is not ok: reading
\* errorData.detail of null throws inside the inner try, like the parse.
HttpErrorMessage(status, text) ==
  LET errorData == JSONParse(text)
  IN  <<"H", "T", "T", "P", " ">> \o NatStr(status) \o <<":", " ">> \o
      (IF errorData.kind = "object" /\ errorData.detail # <<>>
       THEN errorData.detail
       ELSE text)

ErrorToast_NetworkFirst(message) ==
  [level |-> "error",
   text  |-> IF Includes(message, <<"N", "e", "t", "w", "o", "r", "k", " ", "E", "r",
       "r", "o", "r">>) THEN MsgNetwork
             ELSE IF Includes(message, <<"4", "0", "5">>) THEN Msg405
             ELSE IF Includes(message, <<"C", "O", "R", "S">>) THEN MsgCORS
             ELSE IF message # <<>> THEN message
             ELSE MsgPurchaseFailed]

\* The toast of the catch block for an error with this message.
ErrorToast(message) ==
  [level |-> "error",
   text  |-> IF Includes(message, <<"4", "0", "5">>) THEN Msg405
             ELSE IF Includes(message, <<"C", "O", "R", "S">>) THEN MsgCORS
             ELSE IF Includes(message, <<"N", "e", "t", "w", "o", "r", "k", " ", "E",
                 "r", "r", "o", "r">>) THEN MsgNetwork
             ELSE IF message # <<>> THEN message
             ELSE MsgPurchaseFailed]

\* What the try block does with a response: the success toast's text, or the
\* message of the error it throws.
TryResult(status, text) ==
  IF ~Ok(status) THEN [thrown |-> TRUE, message |-> HttpErrorMessage(status, text)]
  ELSE LET result == JSONParse(text)
       IN  IF result.kind = "SyntaxError"
           THEN [thrown |-> TRUE, message |-> SyntaxErrorMessage]
           ELSE IF result.kind = "null"
           THEN [thrown |-> TRUE, message |-> NullMessageError]
           ELSE [thrown |-> FALSE,
                 message |-> IF result.message # <<>> THEN result.message
                             ELSE MsgPurchaseOk]

Responses == [status : Statuses, body : Bodies]

\* Computed once for the responses of the model.
TryTable == [r \in Responses |-> TryResult(r.status, r.body)]

ErrorToastTable ==
  [m \in {TryTable[r].message : r \in Responses} \cup FetchErrors |-> ErrorToast(m)]

\* The retail price texts of the prices and markups of the model, computed once.
PreviewTable ==
  [p \in {Catalog[i].price : i \in 1..Len(Catalog)},
   m \in {InitialMarkup} \cup {NumberOf(t) : t \in PreviewMarkup} |->
     RetailPriceText(p, m)]

\* Outstanding fetches (product lists and purchases) the model allows at once.
MaxOutstanding == 2

VARIABLES
  page,          \* "open", or "gone" once window.location.href was assigned
  whProducts, loading, selected, qty, markup,   \* the component's state
  loads,         \* runs of load() awaiting productsAPI.getAll
  purchases,     \* runs of confirmPurchase awaiting their response (a bag)
  navScheduled,  \* a setTimeout to the dashboard is pending
  event          \* what the last step settled: the request, its result, the toast

vars == <<page, whProducts, loading, selected, qty, markup, loads, purchases,
          navScheduled, event>>

\* A step that settles no request raises nothing.
NoEvent == [by |-> "none"]

Toast(level, text) == [level |-> level, text |-> text]

\* A run of confirmPurchase for product_id ended: the response it logged
\* (status 0 when there was none), the toast it raised, and the product whose
\* modal the page showed when it ended.
PurchaseEvent(product_id, status, body, toast) ==
  [by |-> "confirmPurchase", product_id |-> product_id, status |-> status,
   body |-> body, toast |-> toast, shown |-> selected.id]

Init ==
  /\ page = "open"
  /\ whProducts = <<>>
  /\ loading = TRUE
  /\ selected = NULL
  /\ qty = InitialQty
  /\ markup = InitialMarkup
  /\ loads = 1
  /\ purchases = EmptyBag
  /\ navScheduled = FALSE
  /\ event = NoEvent

FilterOthers_Unfiltered(all) == all

IsOther(p) == p.seller_id # UserId

\* all.filter((p) => p.seller_id !== user.id)
FilterOthers(all) == SelectSeq(all, IsOther)

\* The page renders the grid once loading is false, the modal once a product
\* is selected.
GridShown == page = "open" /\ ~loading

ModalShown == GridShown /\ selected # NULL

ConfirmDisabled_Never == FALSE

\* disabled={qty > selected.stock}
ConfirmDisabled == qty > selected.stock

\* The retail price the modal shows.
RetailPricePreview == PreviewTable[selected.price, markup]

Outstanding == BagCardinality(purchases) + loads

\* productsAPI.getAll resolved with the array all.
LoadSucceeds(all) ==
  /\ page = "open"
  /\ loads > 0
  /\ whProducts' = FilterOthers(all)
  /\ loading' = FALSE
  /\ loads' = loads - 1
  /\ event' = [by |-> "load", ok |-> TRUE, all |-> all, toast |-> NoToast]
  /\ UNCHANGED <<page, selected, qty, markup, purchases, navScheduled>>

LoadFails_ClearsList ==
  /\ page = "open"
  /\ loads > 0
  /\ whProducts' = <<>>
  /\ loading' = FALSE
  /\ loads' = loads - 1
  /\ event' = [by |-> "load", ok |-> FALSE, all |-> <<>>,
               toast |-> Toast("error", MsgLoadFailed)]
  /\ UNCHANGED <<page, selected, qty, markup, purchases, navScheduled>>

\* productsAPI.getAll rejected, or resolved with something that has no filter.
LoadFails ==
  /\ page = "open"
  /\ loads > 0
  /\ loading' = FALSE
  /\ loads' = loads - 1
  /\ event' = [by |-> "load", ok |-> FALSE, all |-> <<>>,
               toast |-> Toast("error", MsgLoadFailed)]
  /\ UNCHANGED <<page, whProducts, selected, qty, markup, purchases, navScheduled>>

Select(p) ==
  /\ GridShown
  /\ \E i \in 1..Len(whProducts) : whProducts[i] = p
  /\ selected' = p
  /\ event' = NoEvent
  /\ UNCHANGED <<page, whProducts, loading, qty, markup, loads, purchases,
                 navScheduled>>

Cancel ==
  /\ ModalShown
  /\ selected' = NULL
  /\ event' = NoEvent
  /\ UNCHANGED <<page, whProducts, loading, qty, markup, loads, purchases,
                 navScheduled>>

SetQty(value) ==
  /\ ModalShown
  /\ qty' = NumberOf(value)
  /\ event' = NoEvent
  /\ UNCHANGED <<page, whProducts, loading, selected, markup, loads, purchases,
                 navScheduled>>

SetMarkup(value) ==
  /\ ModalShown
  /\ markup' = NumberOf(value)
  /\ event' = NoEvent
  /\ UNCHANGED <<page, whProducts, loading, selected, qty, loads, purchases,
                 navScheduled>>

\* quantity: Number(qty) and markup_percent: Number(markup) of numbers
Payload ==
  [wholesaler_id  |-> selected.seller_id,
   product_id     |-> selected.id,
   retailer_id    |-> UserId,
   quantity       |-> qty,
   markup_percent |-> markup]

\* A run of confirmPurchase suspended at an await: what its closure holds.
Frame == [selected |-> selected, payload |-> Payload]

ConfirmPurchase_Deduplicated ==
  /\ ModalShown
  /\ ~ConfirmDisabled
  /\ Outstanding < MaxOutstanding
  /\ ~BagIn(Frame, purchases)
  /\ purchases' = purchases (+) SetToBag({Frame})
  /\ event' = NoEvent
  /\ UNCHANGED <<page, whProducts, loading, selected, qty, markup, loads,
                 navScheduled>>

\* A click on the confirm button: confirmPurchase up to its await of fetch.
ConfirmPurchase ==
  /\ ModalShown
  /\ ~ConfirmDisabled
  /\ Outstanding < MaxOutstanding
  /\ IF selected = NULL
     THEN /\ event' = PurchaseEvent(NULL.id, 0, <<>>, Toast("error", MsgSelect))
          /\ UNCHANGED purchases
     ELSE /\ purchases' = purchases (+) SetToBag({Frame})
          /\ event' = NoEvent
  /\ UNCHANGED <<page, whProducts, loading, selected, qty, markup, loads,
                 navScheduled>>

PurchaseResponse_KeepsForm(f, r) ==
  /\ page = "open"
  /\ BagIn(f, purchases)
  /\ purchases' = purchases (-) SetToBag({f})
  /\ IF TryTable[r].thrown
     THEN /\ event' = PurchaseEvent(f.payload.product_id, r.status, r.body,
                                    ErrorToastTable[TryTable[r].message])
          /\ UNCHANGED <<loading, loads, navScheduled>>
     ELSE /\ event' = PurchaseEvent(f.payload.product_id, r.status, r.body,
                                    Toast("success", TryTable[r].message))
          /\ loading' = TRUE
          /\ loads' = loads + 1
          /\ navScheduled' = TRUE
  /\ UNCHANGED <<page, whProducts, selected, qty, markup>>

\* The response r to the run f arrived: confirmPurchase from resp.text() on.
PurchaseResponse(f, r) ==
  /\ page = "open"
  /\ BagIn(f, purchases)
  /\ purchases' = purchases (-) SetToBag({f})
  /\ IF TryTable[r].thrown
     THEN /\ event' = PurchaseEvent(f.payload.product_id, r.status, r.body,
                                    ErrorToastTable[TryTable[r].message])
          /\ UNCHANGED <<selected, qty, markup, loading, loads, navScheduled>>
     ELSE /\ event' = PurchaseEvent(f.payload.product_id, r.status, r.body,
                                    Toast("success", TryTable[r].message))
          /\ selected' = NULL
          /\ qty' = InitialQty
          /\ markup' = InitialMarkup
          /\ loading' = TRUE
          /\ loads' = loads + 1
          /\ navScheduled' = TRUE
  /\ UNCHANGED <<page, whProducts>>

\* fetch rejected for the run f with a TypeError of message m (no response:
\* status 0).
PurchaseRejected(f, m) ==
  /\ page = "open"
  /\ BagIn(f, purchases)
  /\ purchases' = purchases (-) SetToBag({f})
  /\ event' = PurchaseEvent(f.payload.product_id, 0, <<>>, ErrorToastTable[m])
  /\ UNCHANGED <<page, whProducts, loading, selected, qty, markup, loads,
                 navScheduled>>

\* The timer fired: window.location.href = "/retailer/dashboard" unloads the
\* page, with its state and its requests.
Navigate ==
  /\ page = "open"
  /\ navScheduled
  /\ page' = "gone"
  /\ whProducts' = <<>>
  /\ loading' = FALSE
  /\ selected' = NULL
  /\ qty' = InitialQty
  /\ markup' = InitialMarkup
  /\ loads' = 0
  /\ purchases' = EmptyBag
  /\ navScheduled' = FALSE
  /\ event' = NoEvent

Next ==
  \/ \E all \in FetchedArrays : LoadSucceeds(all)
  \/ LoadFails
  \/ \E i \in 1..Len(Catalog) : Select(Catalog[i])
  \/ Cancel
  \/ \E value \in TypedQty : SetQty(value)
  \/ \E value \in TypedMarkup : SetMarkup(value)
  \/ ConfirmPurchase
  \/ \E f \in BagToSet(purchases) : \E r \in Responses : PurchaseResponse(f, r)
  \/ \E f \in BagToSet(purchases) : \E m \in FetchErrors : PurchaseRejected(f, m)
  \/ Navigate

Spec == Init /\ [][Next]_vars

\* The page with no purchase made, over the markups of the price preview.
PreviewNext ==
  \/ \E all \in FetchedArrays : LoadSucceeds(all)
  \/ LoadFails
  \/ \E i \in 1..Len(Catalog) : Select(Catalog[i])
  \/ Cancel
  \/ \E value \in TypedQty : SetQty(value)
  \/ \E value \in PreviewMarkup : SetMarkup(value)

PreviewSpec == Init /\ [][PreviewNext]_vars

(***************************************************************************)
(* The claims.                                                             *)
(***************************************************************************)

\* C1: in every reachable state the rendered list whProducts holds no product
\* whose seller_id is the current user's id, whatever arrays were fetched.
C1_NoOwnProducts == \A i \in 1..Len(whProducts) : whProducts[i].seller_id # UserId

\* A refresh after a purchase fetched an array holding the user's own product
\* and rendered the others.
C1_Witness ==
  /\ event.by = "load" /\ event.ok /\ navScheduled
  /\ \E i \in 1..Len(event.all) : event.all[i].seller_id = UserId
  /\ whProducts # <<>>

\* C2: while a product is selected and the quantity exceeds its stock the
\* confirm action is disabled, so no request in flight carries a quantity above
\* the stock of the product that was selected when it was sent.
C2_NoRequestAboveStock ==
  /\ (ModalShown /\ qty > selected.stock) => ~ENABLED ConfirmPurchase
  /\ \A f \in BagToSet(purchases) : f.payload.quantity <= f.selected.stock

\* A request for all the stock of one product is in flight while the modal of
\* another product, re-selected with the same quantity, has the action disabled.
C2_Witness ==
  /\ ModalShown /\ qty > selected.stock
  /\ \E f \in BagToSet(purchases) :
       f.selected # selected /\ f.payload.quantity = f.selected.stock

\* C3: every purchase request posted has a quantity of at least 1 and a
\* markup_percent from 0 to 100, whatever the user typed.
C3_PayloadInRange ==
  \A f \in BagToSet(purchases) :
    /\ f.payload.quantity >= 1
    /\ f.payload.markup_percent >= 0
    /\ f.payload.markup_percent <= 100

\* C4: right after confirmPurchase handled a 2xx response with a parseable
\* body, selected = null, qty = 1 and markup = 20.
C4_SuccessResets ==
  (/\ event.by = "confirmPurchase"
   /\ Ok(event.status)
   /\ JSONParse(event.body).kind # "SyntaxError")
  => (selected = NULL /\ qty = InitialQty /\ markup = InitialMarkup)

\* C5 as claimed: once a load has failed, the error notification was raised
\* and whProducts is the empty list.
C5_FailedLoadLeavesEmpty ==
  (event.by = "load" /\ ~event.ok)
  => (event.toast = Toast("error", MsgLoadFailed) /\ whProducts = <<>>)

\* C5 as amended: a load that fails raises the error notification and leaves
\* whProducts as it was, which is the empty list when no purchase has succeeded
\* yet (the failed load is then the mount load).
C5_FailedLoadKeepsList ==
  /\ []((event.by = "load" /\ ~event.ok /\ ~navScheduled) => whProducts = <<>>)
  /\ [][(event'.by = "load" /\ ~event'.ok)
        => (/\ whProducts' = whProducts
            /\ event'.toast = Toast("error", MsgLoadFailed))]_vars

\* The refresh after a purchase failed and the list loaded before is still there.
C5_Witness == event.by = "load" /\ ~event.ok /\ navScheduled /\ whProducts # <<>>

\* C6: while a fetch of load() has not settled, loading is true.
C6_LoadingWhileFetching == loads > 0 => loading

\* The amount in hundredths nearest to cents/100 * (1 + m/100), halves upwards.
RoundedRetailHundredths(cents, m) == (cents * (100 + m) + 50) \div 100

\* C7: the retail price shown for a selected product is
\* price * (1 + markup/100) rounded to 2 decimal places.
C7_PreviewIsRounded ==
  ModalShown
  => RetailPricePreview = FixedText(RoundedRetailHundredths(selected.price, markup))

\* C8: for a 405 response the toast is the method-not-allowed guidance, which is
\* neither the network-error message nor a generic failure message, whatever
\* the body.
C8_405Guidance ==
  (event.by = "confirmPurchase" /\ event.status = 405)
  => /\ event.toast = Toast("error", Msg405)
     /\ event.toast.text # MsgNetwork
     /\ event.toast.text # MsgPurchaseFailed
     /\ event.toast.text # HttpErrorMessage(event.status, event.body)

\* A 405 response whose detail reads "Network Error" got the 405 guidance.
C8_Witness ==
  /\ event.by = "confirmPurchase" /\ event.status = 405
  /\ event.body = BodyDetail
  /\ event.toast.text = Msg405

\* C9: purchase attempts are not deduplicated: with the very request of the
\* form already in flight the confirm button still sends another one (up to the
\* fetches the model allows at once).
C9_NoDeduplication ==
  (/\ ModalShown
   /\ ~ConfirmDisabled
   /\ BagIn(Frame, purchases)
   /\ Outstanding < MaxOutstanding)
  => ENABLED ConfirmPurchase

\* Two requests for the same product and quantity are in flight at once.
C9_TwoInFlight == \E f \in BagToSet(purchases) : CopiesIn(f, purchases) >= 2

\* C10 as claimed: a success for product A arriving while the modal shows
\* another product B leaves B selected.
C10_ResetOnlySubmitted ==
  (/\ event.by = "confirmPurchase"
   /\ event.toast.level = "success"
   /\ event.shown # NULL.id
   /\ event.shown # event.product_id)
  => selected.id = event.shown

\* C10 as amended: the reset is unconditional; a success for product A
\* arriving while the modal shows another product B closes that modal and
\* resets quantity and markup.
C10_ResetIsUnconditional ==
  (/\ event.by = "confirmPurchase"
   /\ event.toast.level = "success"
   /\ event.shown # NULL.id
   /\ event.shown # event.product_id)
  => (selected = NULL /\ qty = InitialQty /\ markup = InitialMarkup)

\* The success for product A arrived while the modal showed product B.
C10_Witness ==
  /\ event.by = "confirmPurchase"
  /\ event.toast.level = "success"
  /\ event.product_id = ProductA.id
  /\ event.shown = ProductB.id

====
